---- MODULE Spec2Model ----
(***************************************************************************)
(* foreman-mcp: the tool catalog (list_tools) and the tool dispatcher      *)
(* (call_tool) of src/foreman_mcp/server.py, run as coroutines on the      *)
(* single-threaded asyncio event loop that uvicorn drives.                 *)
(*                                                                         *)
(* call_tool is a coroutine.  Its body is cut at the points where it waits *)
(* for the remote system:                                                  *)
(*   - foreman.resource_action(...) is a plain (synchronous) call into     *)
(*     apypie, which uses the blocking `requests` library: the coroutine   *)
(*     keeps the event loop while the remote system answers;               *)
(*   - `await client.get(...)` on an httpx.AsyncClient suspends the        *)
(*     coroutine and gives the event loop back.                            *)
(* Python values are tagged records, dicts are functions from keys to      *)
(* values, lists are sequences and str is STRING.                          *)
(***************************************************************************)
EXTENDS Integers, Sequences, FiniteSets, TLC

\* Number of invocation slots the transport may have open at once.
NumTasks == 2

Tasks == 1 .. NumTasks

\* "no coroutine is running on the event loop"
NoTask == 0

(***************************************************************************)
(* Python values                                                           *)
(***************************************************************************)
None_ == [t |-> "none"]

PyStr(s) == [t |-> "str", s |-> s]

PyInt(i) == [t |-> "int", i |-> i]

\* bool(v), as used by `if not template_name:` / `if not resource:`
Truthy(v) ==
    CASE v.t = "none" -> FALSE
      [] v.t = "str"  -> v.s # ""
      [] v.t = "int"  -> v.i # 0

\* str(v), as used by an f-string replacement field {v}
Fmt(v) ==
    CASE v.t = "none" -> "None"
      [] v.t = "str"  -> v.s
      [] v.t = "int"  -> ToString(v.i)

\* the dict literal {}
EmptyDict == [k \in {} |-> None_]

\* d.get(k)
Get(d, k) == IF k \in DOMAIN d THEN d[k] ELSE None_

\* d.get(k, default)
GetOr(d, k, default) == IF k \in DOMAIN d THEN d[k] ELSE default

(***************************************************************************)
(* Exceptions                                                              *)
(***************************************************************************)
ValueError(msg) == [type |-> "ValueError", msg |-> msg]

\* d[k] on a dict without key k
KeyError(k) == [type |-> "KeyError", key |-> k]

\* httpx.HTTPStatusError, raised by response.raise_for_status()
HTTPStatusError(status) == [type |-> "HTTPStatusError", status |-> status]

(***************************************************************************)
(* Configuration closed over by call_tool (click options of main)          *)
(***************************************************************************)
\* --foreman-url, kept as the text before its trailing slashes and their count
foreman_url == [stem |-> "https://foreman.example.com", slashes |-> 1]

\* foreman_url.rstrip('/')
RStripSlash(u) == u.stem

(***************************************************************************)
(* The catalog                                                             *)
(***************************************************************************)
\* types.Tool(name=..., inputSchema={"required": [...], "properties": {...}});
\* a schema without "required"/"properties" has them empty here.
Tool(name, required, properties) ==
    [name |-> name, required |-> required, properties |-> properties]

list_tools ==
    << Tool("render-report-template", <<"name">>, {<<"name", "string">>}),
       Tool("create-report-template", <<"name", "template">>,
            {<<"name", "string">>, <<"template", "string">>,
             <<"description", "string">>}),
       Tool("get-report-template", <<"name">>, {<<"name", "string">>}),
       Tool("list-all-report-templates", <<>>, {}),
       Tool("get-report-templates-documentation", <<>>, {}),
       Tool("list-foreman-resources", <<>>, {}),
       Tool("get-resource-api-documentation", <<"resource">>,
            {<<"resource", "string">>}),
       Tool("search-resource", <<"resource", "search">>,
            {<<"resource", "string">>, <<"search", "string">>,
             <<"organization_id", "integer">>}) >>

(***************************************************************************)
(* The remote system: what foreman.resource_action and client.get can      *)
(* hand back to call_tool                                                  *)
(***************************************************************************)
\* records of the report_templates collection as 'index' lists them
IndexRecordA ==
    [id |-> PyInt(7), name |-> PyStr("Host statuses"),
     description |-> PyStr("Status of hosts")]

IndexRecordB ==
    [id |-> PyInt(9), name |-> PyStr("Applicable errata"),
     description |-> None_]

\* the parsed JSON body of an 'index' call; the last one has no 'results' key
IndexResponses ==
    { [results |-> <<>>],
      [results |-> <<IndexRecordA>>],
      [results |-> <<IndexRecordB, IndexRecordA>>],
      [message |-> PyStr("Resource not found")] }

\* the parsed JSON body of a 'show' call: description and template may be
\* missing or null
ShowResponses ==
    { [id |-> PyInt(7), name |-> PyStr("Host statuses"),
       description |-> PyStr("Status of hosts"),
       template |-> PyStr("<%= report_render %>")],
      [id |-> PyInt(7), name |-> PyStr("Host statuses")],
      [id |-> PyInt(9), name |-> PyStr("Applicable errata"),
       description |-> None_, template |-> PyStr("<%= report_render %>")],
      [id |-> PyInt(9), name |-> PyStr("Applicable errata"),
       description |-> PyStr("Errata")] }

\* what resource_action raises when the remote call fails (requests' errors)
ResourceActionErrors ==
    { [type |-> "HTTPError", status |-> 500],
      [type |-> "ConnectionError"] }

\* httpx.Response: status_code and text
HttpResponses ==
    { [status_code |-> 200, text |-> "<html>documentation</html>"],
      [status_code |-> 200, text |-> ""],
      [status_code |-> 204, text |-> ""],
      [status_code |-> 301, text |-> ""],
      [status_code |-> 404, text |-> "<html>Not Found</html>"],
      [status_code |-> 500, text |-> "Internal Server Error"] }

\* what `await client.get(...)` raises when no response arrives
HttpErrors == { [type |-> "ConnectError"], [type |-> "ReadTimeout"] }

\* foreman.resources, read from the API description when the client is built
foreman_resources == <<"hosts", "report_templates">>

(***************************************************************************)
(* Text helpers                                                            *)
(***************************************************************************)
RECURSIVE Join(_, _)
\* sep.join(parts)
Join(sep, parts) ==
    IF parts = <<>> THEN ""
    ELSE IF Len(parts) = 1 THEN parts[1]
    ELSE parts[1] \o sep \o Join(sep, Tail(parts))

\* the order in which the remote system writes a record's fields, which the
\* parsed dict keeps
FieldOrder == <<"id", "name", "description", "template">>

\* json.dumps of a scalar (the strings used here need no escaping)
JsonScalar(v) ==
    CASE v.t = "none" -> "null"
      [] v.t = "str"  -> "\"" \o v.s \o "\""
      [] v.t = "int"  -> ToString(v.i)

\* json.dumps(d, indent=2) of a record nested once in a list
JsonObject(d) ==
    LET keys == SelectSeq(FieldOrder, LAMBDA k : k \in DOMAIN d)
        item(k) == "    \"" \o k \o "\": " \o JsonScalar(d[k])
    IN  IF keys = <<>> THEN "{}"
        ELSE "{\n" \o Join(",\n", [i \in 1 .. Len(keys) |-> item(keys[i])])
                   \o "\n  }"

\* json.dumps(l, indent=2) of a list of records
JsonDumps(l) ==
    IF l = <<>> THEN "[]"
    ELSE "[\n  " \o Join(",\n  ", [i \in 1 .. Len(l) |-> JsonObject(l[i])])
                 \o "\n]"

\* types.TextContent(type="text", text=...)
TextContent(text) == [type |-> "text", text |-> text]

(***************************************************************************)
(* call_tool, cut at its remote calls.  A step is what the coroutine does  *)
(* next: raise, return, call resource_action, or await client.get.         *)
(* `then` names the statement that receives the remote answer.             *)
(***************************************************************************)
Raise(exc) == [op |-> "raise", exc |-> exc]

Return(content) == [op |-> "return", content |-> content]

CallResourceAction(resource, action, params, then) ==
    [op |-> "resource_action", resource |-> resource, action |-> action,
     params |-> params, then |-> then]

AwaitGet(url, then) == [op |-> "get", url |-> url, then |-> then]

\* name == 'list-all-report-templates'
ListAllReportTemplates ==
    CallResourceAction("report_templates", "index", EmptyDict, "list")

\* the list comprehension and join over templates['results']
AfterListIndex(templates) ==
    IF "results" \notin DOMAIN templates THEN Raise(KeyError("results"))
    ELSE LET rs == templates["results"]
             missing(r) == \E k \in {"name", "description"} : k \notin DOMAIN r
             line(r) == "Name: " \o Fmt(r["name"]) \o "\nDescription: "
                                 \o Fmt(r["description"])
             first == CHOOSE i \in 1 .. Len(rs) :
                          missing(rs[i]) /\ \A j \in 1 .. i - 1 : ~missing(rs[j])
         IN  IF \E i \in 1 .. Len(rs) : missing(rs[i])
             THEN Raise(KeyError(IF "name" \notin DOMAIN rs[first]
                                 THEN "name" ELSE "description"))
             ELSE Return(<<TextContent(
                      Join("\n\n", [i \in 1 .. Len(rs) |-> line(rs[i])]))>>)

\* name == 'get-report-template', up to the 'index' call
GetReportTemplate(arguments) ==
    LET template_name == Get(arguments, "name")
    IN  IF ~Truthy(template_name)
        THEN Raise(ValueError("Missing 'name' argument for get-report-template"))
        ELSE CallResourceAction("report_templates", "index",
                 [search |-> PyStr("name=\"" \o Fmt(template_name) \o "\"")],
                 "find")

\* AfterFindIndex taking the last result instead of the first
AfterFindIndexLast(arguments, templates) ==
    LET template_name == Get(arguments, "name")
        results == GetOr(templates, "results", <<>>)
    IN  IF results = <<>>
        THEN Raise(ValueError("Report template '" \o Fmt(template_name)
                                  \o "' not found"))
        ELSE CallResourceAction("report_templates", "show",
                 [id |-> results[Len(results)]["id"]], "show")

\* results = templates.get('results', []) ... the 'show' call
AfterFindIndex(arguments, templates) ==
    LET template_name == Get(arguments, "name")
        results == GetOr(templates, "results", <<>>)
    IN  IF results = <<>>
        THEN Raise(ValueError("Report template '" \o Fmt(template_name)
                                  \o "' not found"))
        ELSE IF "id" \notin DOMAIN results[1] THEN Raise(KeyError("id"))
        ELSE CallResourceAction("report_templates", "show",
                 [id |-> results[1]["id"]], "show")

\* FormatTemplate with .get() without the '' defaults
FormatTemplateNoDefault(template) ==
    "Name: " \o Fmt(template["name"])
        \o "\nDescription: " \o Fmt(Get(template, "description"))
        \o "\nTemplate:\n" \o Fmt(Get(template, "template"))

\* the f-string of the returned text block
FormatTemplate(template) ==
    "Name: " \o Fmt(template["name"])
        \o "\nDescription: " \o Fmt(GetOr(template, "description", PyStr("")))
        \o "\nTemplate:\n" \o Fmt(GetOr(template, "template", PyStr("")))

AfterShow(template) ==
    IF "name" \notin DOMAIN template THEN Raise(KeyError("name"))
    ELSE Return(<<TextContent(FormatTemplate(template))>>)

\* CreateReportTemplate checking its 'name' argument first
CreateReportTemplateChecked(name, arguments) ==
    IF ~Truthy(Get(arguments, "name"))
    THEN Raise(ValueError("Missing 'name' argument for create-report-template"))
    ELSE Raise(ValueError("Not implemented: " \o name))

\* name == 'create-report-template'
CreateReportTemplate(name, arguments) ==
    Raise(ValueError("Not implemented: " \o name))

\* name == 'get-report-templates-documentation', up to the GET
GetReportTemplatesDocumentation ==
    AwaitGet(RStripSlash(foreman_url) \o "/templates_doc/v1/reports.en.html",
             "doc")

\* is_success taken as "not a 4xx/5xx error"
is_not_error(response) == response.status_code < 400

\* httpx: response.is_success
is_success(response) ==
    200 <= response.status_code /\ response.status_code <= 299

\* response.raise_for_status(), then the returned text block
AfterGet(response) ==
    IF ~is_success(response)
    THEN Raise(HTTPStatusError(response.status_code))
    ELSE Return(<<TextContent(response.text)>>)

\* name == 'list-foreman-resources' (the text's backquotes around the two tool
\* names are left out: a TLA+ string cannot hold them)
ListForemanResources ==
    LET resource_list ==
            Join("\n", [i \in 1 .. Len(foreman_resources) |->
                            "- " \o foreman_resources[i]])
    IN  Return(<<TextContent(
            "\n            The Foreman API provides the following resources:"
            \o "\n            " \o resource_list
            \o "\n\n            Details about each resource and how to search for them can be obtained using the get-resource-api-documentation tool."
            \o "\n            You can also search for specific resources using the search-resource tool."
            \o "\n            ")>>)

\* name == 'get-resource-api-documentation', up to the GET
GetResourceApiDocumentation(arguments) ==
    LET resource == Get(arguments, "resource")
    IN  IF ~Truthy(resource)
        THEN Raise(ValueError(
                 "Missing 'resource' argument for list-resource-search-options"))
        ELSE AwaitGet(RStripSlash(foreman_url) \o "/apidoc/v2/" \o Fmt(resource)
                          \o "/index.en.html", "doc")

\* the dict comprehension that drops the keys whose value is None
SearchParams(arguments) ==
    LET all == [search |-> Get(arguments, "search"),
                organization_id |-> Get(arguments, "organization_id")]
    IN  [k \in {k \in DOMAIN all : all[k] # None_} |-> all[k]]

\* name == 'search-resource', up to the 'index' call
SearchResource(arguments) ==
    LET resource == Get(arguments, "resource")
    IN  IF ~Truthy(resource)
        THEN Raise(ValueError("Missing 'resource' argument for search-resource"))
        ELSE CallResourceAction(Fmt(resource), "index",
                                SearchParams(arguments), "search")

\* json.dumps(results['results'], indent=2)
AfterSearchIndex(results) ==
    IF "results" \notin DOMAIN results THEN Raise(KeyError("results"))
    ELSE Return(<<TextContent(JsonDumps(results["results"]))>>)

\* UnknownTool with a message that leaves the name out
UnknownToolUnnamed(name) == Raise(ValueError("Unknown tool"))

\* the final raise, reached when no branch matched
UnknownTool(name) == Raise(ValueError("Unknown tool: " \o name))

\* the if/elif chain on name: the coroutine from its start to its first
\* remote call, return or raise
call_tool(name, arguments) ==
    IF name = "list-all-report-templates" THEN ListAllReportTemplates
    ELSE IF name = "get-report-template" THEN GetReportTemplate(arguments)
    ELSE IF name = "create-report-template"
         THEN CreateReportTemplate(name, arguments)
    ELSE IF name = "get-report-templates-documentation"
         THEN GetReportTemplatesDocumentation
    ELSE IF name = "list-foreman-resources" THEN ListForemanResources
    ELSE IF name = "get-resource-api-documentation"
         THEN GetResourceApiDocumentation(arguments)
    ELSE IF name = "search-resource" THEN SearchResource(arguments)
    ELSE UnknownTool(name)

\* the coroutine from the answer of the remote call `then` names onward
Resume(then, arguments, answer) ==
    CASE then = "list"   -> AfterListIndex(answer)
      [] then = "find"   -> AfterFindIndex(arguments, answer)
      [] then = "show"   -> AfterShow(answer)
      [] then = "search" -> AfterSearchIndex(answer)
      [] then = "doc"    -> AfterGet(answer)

\* OnRemoteError issuing the failed request once more
RetryOnRemoteError(request, exc) == request

\* no try/except surrounds a remote call: what it raises leaves call_tool
OnRemoteError(request, exc) == Raise(exc)

(***************************************************************************)
(* Tool calls the transport hands to call_tool                             *)
(***************************************************************************)
\* marks a key the caller left out of the arguments
Absent == [t |-> "absent"]

\* the arguments dict with the keys the caller gave
MkArgs(given) ==
    [k \in {k \in DOMAIN given : given[k] # Absent} |-> given[k]]

\* arguments of the report-template tools
TemplateArgs ==
    { MkArgs([name |-> n, template |-> b]) :
        n \in {Absent, None_, PyStr(""), PyStr("Host statuses")},
        b \in {Absent, PyStr("<%= report_render %>")} }

\* arguments of the resource tools
ResourceArgs ==
    { MkArgs([resource |-> r, search |-> s, organization_id |-> o]) :
        r \in {Absent, PyStr(""), PyStr("hosts")},
        s \in {Absent, None_, PyStr(""), PyStr("name=foo")},
        o \in {Absent, None_, PyInt(5), PyInt(0)} }

\* every name of the catalog, and names that are not in it
ToolNames ==
    { list_tools[i].name : i \in 1 .. Len(list_tools) }
        \cup {"list-resource-search-options", "delete-report-template"}

ToolCalls ==
    [name : ToolNames, arguments : TemplateArgs \cup ResourceArgs]

\* the calls used when several invocations are open at once
ConcurrentToolCalls ==
    [name : ToolNames,
     arguments : { [name |-> PyStr("Host statuses"), resource |-> PyStr("hosts"),
                    search |-> PyStr("name=foo")] }]

(***************************************************************************)
(* State                                                                   *)
(***************************************************************************)
VARIABLES
    pc,       \* per task: "idle", "ready", "blocked", "suspended", "done"
    call,     \* per task: the tool call (name, arguments) it runs
    pending,  \* per task: the remote call it waits for
    wire,     \* per task: the remote requests it made and what came back
    outcome,  \* per task: what call_tool returned or raised
    loop,     \* the task that has the event loop, or NoTask
    listed    \* the catalog last handed to the transport

vars == <<pc, call, pending, wire, outcome, loop, listed>>

NoCall == [name |-> "", arguments |-> EmptyDict]

NoStep == [op |-> "none"]

NoOutcome == [op |-> "none"]

Init ==
    /\ pc = [t \in Tasks |-> "idle"]
    /\ call = [t \in Tasks |-> NoCall]
    /\ pending = [t \in Tasks |-> NoStep]
    /\ wire = [t \in Tasks |-> <<>>]
    /\ outcome = [t \in Tasks |-> NoOutcome]
    /\ loop = NoTask
    /\ listed = <<>>

\* what a stub of the remote client records of a request
RequestOf(step) ==
    IF step.op = "resource_action"
    THEN [ev |-> "request", via |-> "resource_action",
          resource |-> step.resource, action |-> step.action,
          params |-> step.params]
    ELSE [ev |-> "request", via |-> "get", url |-> step.url]

AnswerOf(answer) == [ev |-> "answer", body |-> answer]

ErrorOf(exc) == [ev |-> "error", exc |-> exc]

\* Task t, having the event loop, performs `step`; `log` is its wire so far.
\*  - return/raise: the coroutine ends and the loop is free;
\*  - resource_action: a blocking call, t keeps the loop until it is answered;
\*  - await client.get: t is suspended and the loop is free.
Perform(t, step, log) ==
    CASE step.op \in {"return", "raise"} ->
            /\ pc' = [pc EXCEPT ![t] = "done"]
            /\ pending' = [pending EXCEPT ![t] = NoStep]
            /\ wire' = [wire EXCEPT ![t] = log]
            /\ outcome' = [outcome EXCEPT ![t] = step]
            /\ loop' = NoTask
      [] step.op = "resource_action" ->
            /\ pc' = [pc EXCEPT ![t] = "blocked"]
            /\ pending' = [pending EXCEPT ![t] = step]
            /\ wire' = [wire EXCEPT ![t] = Append(log, RequestOf(step))]
            /\ outcome' = outcome
            /\ loop' = t
      [] step.op = "get" ->
            /\ pc' = [pc EXCEPT ![t] = "suspended"]
            /\ pending' = [pending EXCEPT ![t] = step]
            /\ wire' = [wire EXCEPT ![t] = Append(log, RequestOf(step))]
            /\ outcome' = outcome
            /\ loop' = NoTask

\* the transport schedules call_tool(name, arguments) as task t
Accept(t, c) ==
    /\ pc[t] = "idle"
    /\ pc' = [pc EXCEPT ![t] = "ready"]
    /\ call' = [call EXCEPT ![t] = c]
    /\ UNCHANGED <<pending, wire, outcome, loop, listed>>

\* one request at a time: the next call arrives when no other is open
Submit(t, c) ==
    /\ \A u \in Tasks : pc[u] = "idle"
    /\ Accept(t, c)

\* requests arriving while others are open
SubmitConcurrent(t, c) == Accept(t, c)

\* the event loop, free, starts task t: call_tool runs to its first remote
\* call, return or raise
Start(t) ==
    /\ pc[t] = "ready"
    /\ loop = NoTask
    /\ Perform(t, call_tool(call[t].name, call[t].arguments), wire[t])
    /\ UNCHANGED <<call, listed>>

\* the bodies resource_action can return for the call `step`
AnswersTo(step) ==
    IF step.op # "resource_action" THEN {}
    ELSE IF step.action = "show" THEN ShowResponses
    ELSE IndexResponses

\* foreman.resource_action returns `answer` to task t, which held the loop
ResourceActionReturns(t, answer) ==
    /\ pc[t] = "blocked"
    /\ loop = t
    /\ Perform(t, Resume(pending[t].then, call[t].arguments, answer),
               Append(wire[t], AnswerOf(answer)))
    /\ UNCHANGED <<call, listed>>

\* foreman.resource_action raises `exc` in task t
ResourceActionRaises(t, exc) ==
    /\ pc[t] = "blocked"
    /\ loop = t
    /\ Perform(t, OnRemoteError(pending[t], exc),
               Append(wire[t], ErrorOf(exc)))
    /\ UNCHANGED <<call, listed>>

\* the GET of suspended task t is answered and the free loop resumes t
GetReturns(t, response) ==
    /\ pc[t] = "suspended"
    /\ loop = NoTask
    /\ Perform(t, Resume(pending[t].then, call[t].arguments, response),
               Append(wire[t], AnswerOf(response)))
    /\ UNCHANGED <<call, listed>>

\* the GET of suspended task t fails and the free loop resumes t with `exc`
GetRaises(t, exc) ==
    /\ pc[t] = "suspended"
    /\ loop = NoTask
    /\ Perform(t, OnRemoteError(pending[t], exc),
               Append(wire[t], ErrorOf(exc)))
    /\ UNCHANGED <<call, listed>>

\* the transport sends the outcome of task t and forgets the call
Deliver(t) ==
    /\ pc[t] = "done"
    /\ pc' = [pc EXCEPT ![t] = "idle"]
    /\ call' = [call EXCEPT ![t] = NoCall]
    /\ wire' = [wire EXCEPT ![t] = <<>>]
    /\ outcome' = [outcome EXCEPT ![t] = NoOutcome]
    /\ UNCHANGED <<pending, loop, listed>>

\* the transport asks for the catalog
ListTools ==
    /\ listed' = list_tools
    /\ UNCHANGED <<pc, call, pending, wire, outcome, loop>>

Remote ==
    \/ \E t \in Tasks : Start(t)
    \/ \E t \in Tasks : \E a \in AnswersTo(pending[t]) :
           ResourceActionReturns(t, a)
    \/ \E t \in Tasks : \E e \in ResourceActionErrors :
           ResourceActionRaises(t, e)
    \/ \E t \in Tasks : \E r \in HttpResponses : GetReturns(t, r)
    \/ \E t \in Tasks : \E e \in HttpErrors : GetRaises(t, e)
    \/ \E t \in Tasks : Deliver(t)
    \/ ListTools

Next ==
    \/ \E t \in Tasks : \E c \in ToolCalls : Submit(t, c)
    \/ Remote

Spec == Init /\ [][Next]_vars

NextConcurrent ==
    \/ \E t \in Tasks : \E c \in ConcurrentToolCalls : SubmitConcurrent(t, c)
    \/ Remote

SpecConcurrent == Init /\ [][NextConcurrent]_vars

(***************************************************************************)
(* Reading an outcome: the failure classes of the error taxonomy, told     *)
(* apart by the exception type and the text of its message                 *)
(***************************************************************************)
Started(t) == pc[t] \in {"blocked", "suspended", "done"}

Failed(t) == pc[t] = "done" /\ outcome[t].op = "raise"

Returned(t) == pc[t] = "done" /\ outcome[t].op = "return"

RequestsOf(t) == SelectSeq(wire[t], LAMBDA e : e.ev = "request")

NoRemoteCall(t) == Len(wire[t]) = 0

CatalogNames == { list_tools[i].name : i \in 1 .. Len(list_tools) }

RequiredOf(name) ==
    LET i == CHOOSE i \in 1 .. Len(list_tools) : list_tools[i].name = name
    IN  { list_tools[i].required[j] : j \in 1 .. Len(list_tools[i].required) }

ArgumentKeys ==
    {"name", "template", "description", "resource", "search", "organization_id"}

IsMissingArgument(exc) ==
    /\ exc.type = "ValueError"
    /\ \E k \in ArgumentKeys : \E n \in ToolNames :
           exc.msg = "Missing '" \o k \o "' argument for " \o n

IsUnknownTool(exc) ==
    /\ exc.type = "ValueError"
    /\ \E n \in ToolNames : exc.msg = "Unknown tool: " \o n

IsNotImplemented(exc) ==
    /\ exc.type = "ValueError"
    /\ \E n \in ToolNames : exc.msg = "Not implemented: " \o n

IsNotFound(exc) ==
    /\ exc.type = "ValueError"
    /\ \E a \in TemplateArgs :
           exc.msg = "Report template '" \o Fmt(Get(a, "name")) \o "' not found"

IsRemoteRequestFailed(exc) ==
    exc.type \in {"HTTPStatusError", "HTTPError", "ConnectionError",
                  "ConnectError", "ReadTimeout"}

Classes(exc) ==
    { c \in {"MissingArgument", "UnknownTool", "NotImplemented", "NotFound",
             "RemoteRequestFailed"} :
        CASE c = "MissingArgument"     -> IsMissingArgument(exc)
          [] c = "UnknownTool"         -> IsUnknownTool(exc)
          [] c = "NotImplemented"      -> IsNotImplemented(exc)
          [] c = "NotFound"            -> IsNotFound(exc)
          [] c = "RemoteRequestFailed" -> IsRemoteRequestFailed(exc) }

\* the caller gave argument k a value (JSON null is no value)
Supplied(arguments, k) == k \in DOMAIN arguments /\ arguments[k] # None_

\* argument k is absent or empty
AbsentOrEmpty(arguments, k) == ~Truthy(Get(arguments, k))

(***************************************************************************)
(* C1: for get-report-template, create-report-template,                    *)
(* get-resource-api-documentation and search-resource, a call with one of  *)
(* the required arguments of its schema absent or empty fails with         *)
(* MissingArgument and makes no remote call.                               *)
(* The code checks neither 'search' of search-resource nor the arguments   *)
(* of create-report-template.                                              *)
(***************************************************************************)
ToolsWithRequiredArguments ==
    {"get-report-template", "create-report-template",
     "get-resource-api-documentation", "search-resource"}

C1_MissingRequiredArgumentFails ==
    \A t \in Tasks :
        ( /\ Started(t)
          /\ call[t].name \in ToolsWithRequiredArguments
          /\ \E k \in RequiredOf(call[t].name) :
                 AbsentOrEmpty(call[t].arguments, k) )
        => /\ Failed(t)
           /\ IsMissingArgument(outcome[t].exc)
           /\ NoRemoteCall(t)

(***************************************************************************)
(* C2: list_tools returns exactly the seven tools of the spec's table,     *)
(* each with the table's required arguments.                               *)
(* The code's catalog has an eighth entry, render-report-template, which   *)
(* call_tool does not know.                                                *)
(***************************************************************************)
TableRequired ==
    [ n \in {"list-all-report-templates", "get-report-template",
             "create-report-template", "get-report-templates-documentation",
             "list-foreman-resources", "get-resource-api-documentation",
             "search-resource"} |->
        CASE n = "get-report-template"            -> <<"name">>
          [] n = "create-report-template"         -> <<"name", "template">>
          [] n = "get-resource-api-documentation" -> <<"resource">>
          [] n = "search-resource"                -> <<"resource", "search">>
          [] OTHER                                -> <<>> ]

C2_CatalogIsTheSevenTools ==
    listed # <<>> =>
        /\ Len(listed) = Cardinality(DOMAIN TableRequired)
        /\ { listed[i].name : i \in 1 .. Len(listed) } = DOMAIN TableRequired
        /\ \A i \in 1 .. Len(listed) :
               listed[i].name \in DOMAIN TableRequired
                   => listed[i].required = TableRequired[listed[i].name]
        /\ listed = list_tools

(***************************************************************************)
(* C3: a call of a name that is not in the catalog fails with UnknownTool, *)
(* the message names the tool, and no remote call is made.                 *)
(***************************************************************************)
C3_UnknownToolFails ==
    \A t \in Tasks :
        (Started(t) /\ call[t].name \notin CatalogNames)
        => /\ Failed(t)
           /\ outcome[t].exc = ValueError("Unknown tool: " \o call[t].name)
           /\ Classes(outcome[t].exc) = {"UnknownTool"}
           /\ NoRemoteCall(t)

C3_Witness ==
    \E t \in Tasks :
        /\ Failed(t)
        /\ call[t].name = "delete-report-template"
        /\ Supplied(call[t].arguments, "name")
        /\ outcome[t].exc = ValueError("Unknown tool: delete-report-template")

(***************************************************************************)
(* C4: create-report-template fails with NotImplemented whatever its       *)
(* arguments, makes no remote call, and the failure is neither             *)
(* MissingArgument nor UnknownTool.                                        *)
(***************************************************************************)
C4_CreateIsNotImplemented ==
    \A t \in Tasks :
        (Started(t) /\ call[t].name = "create-report-template")
        => /\ Failed(t)
           /\ Classes(outcome[t].exc) = {"NotImplemented"}
           /\ NoRemoteCall(t)

C4_Witness ==
    \E t \in Tasks :
        /\ Failed(t)
        /\ call[t].name = "create-report-template"
        /\ AbsentOrEmpty(call[t].arguments, "name")
        /\ "template" \notin DOMAIN call[t].arguments
        /\ IsNotImplemented(outcome[t].exc)

(***************************************************************************)
(* Reading the wire of a get-report-template call                          *)
(***************************************************************************)
IsRequest(e, resource, action) ==
    /\ e.ev = "request"
    /\ e.via = "resource_action"
    /\ e.resource = resource
    /\ e.action = action

IndexRequests(t) ==
    SelectSeq(wire[t], LAMBDA e : e.ev = "request" /\ e.via = "resource_action"
                                      /\ e.action = "index")

ShowRequests(t) ==
    SelectSeq(wire[t], LAMBDA e : e.ev = "request" /\ e.via = "resource_action"
                                      /\ e.action = "show")

GetRequests(t) ==
    SelectSeq(wire[t], LAMBDA e : e.ev = "request" /\ e.via = "get")

\* the records an 'index' answer holds
ResultsOf(body) == IF "results" \in DOMAIN body THEN body["results"] ELSE <<>>

GetsTemplate(t) ==
    /\ Started(t)
    /\ call[t].name = "get-report-template"
    /\ ~AbsentOrEmpty(call[t].arguments, "name")

(***************************************************************************)
(* C5: get-report-template with a non-empty name first issues one 'index'  *)
(* query on report_templates with search name="<value>"; with zero results *)
(* it fails with NotFound and issues no 'show'; 'show' is issued only      *)
(* after a non-empty index result, exactly once, with the id of the first  *)
(* result.                                                                 *)
(***************************************************************************)
C5_IndexThenShowOfFirstResult ==
    \A t \in Tasks :
        GetsTemplate(t) =>
            /\ Len(IndexRequests(t)) = 1
            /\ IsRequest(wire[t][1], "report_templates", "index")
            /\ wire[t][1].params =
                   [search |-> PyStr("name=\"" \o call[t].arguments["name"].s
                                         \o "\"")]
            /\ Len(ShowRequests(t)) <= 1
            /\ (Len(wire[t]) >= 2 /\ wire[t][2].ev = "answer")
                   => IF Len(ResultsOf(wire[t][2].body)) = 0
                      THEN /\ Failed(t)
                           /\ Classes(outcome[t].exc) = {"NotFound"}
                           /\ Len(ShowRequests(t)) = 0
                      ELSE /\ Len(ShowRequests(t)) = 1
                           /\ IsRequest(wire[t][3], "report_templates", "show")
                           /\ wire[t][3].params =
                                  [id |-> ResultsOf(wire[t][2].body)[1]["id"]]
            /\ Len(ShowRequests(t)) = 1
                   => /\ Len(wire[t]) >= 3
                      /\ wire[t][2].ev = "answer"
                      /\ Len(ResultsOf(wire[t][2].body)) > 0

C5_Witness ==
    \E t \in Tasks :
        /\ GetsTemplate(t)
        /\ Len(wire[t]) >= 3
        /\ wire[t][2].ev = "answer"
        /\ Len(ResultsOf(wire[t][2].body)) = 2
        /\ IsRequest(wire[t][3], "report_templates", "show")
        /\ wire[t][3].params = [id |-> PyInt(9)]

(***************************************************************************)
(* C6: when 'show' returns a record, get-report-template returns exactly   *)
(* one text block "Name: X\nDescription: Y\nTemplate:\nZ" with X, Y, Z the *)
(* record's name, description and template, Y and Z being "" when the      *)
(* field is absent.  (A field that is present is written as Python writes  *)
(* it: a null description reads None.)                                     *)
(***************************************************************************)
FieldText(record, k) == IF k \in DOMAIN record THEN Fmt(record[k]) ELSE ""

ShowAnswered(t) ==
    /\ GetsTemplate(t)
    /\ Len(wire[t]) = 4
    /\ wire[t][4].ev = "answer"

C6_TemplateText ==
    \A t \in Tasks :
        ShowAnswered(t) =>
            /\ Returned(t)
            /\ Len(outcome[t].content) = 1
            /\ outcome[t].content[1].type = "text"
            /\ outcome[t].content[1].text =
                   "Name: " \o FieldText(wire[t][4].body, "name")
                       \o "\nDescription: "
                       \o FieldText(wire[t][4].body, "description")
                       \o "\nTemplate:\n"
                       \o FieldText(wire[t][4].body, "template")

C6_Witness ==
    \E t \in Tasks :
        /\ ShowAnswered(t)
        /\ DOMAIN wire[t][4].body = {"id", "name"}
        /\ Returned(t)
        /\ outcome[t].content[1].text =
               "Name: Host statuses\nDescription: \nTemplate:\n"

(***************************************************************************)
(* C7: search-resource with resource and search issues one 'index' query   *)
(* on the named resource; its parameters hold search with the caller's     *)
(* value, hold organization_id with the caller's value exactly when the    *)
(* caller gave one, and hold no key whose value is absent, null or empty.  *)
(* The code drops only the keys whose value is None and does not check     *)
(* 'search' (see C1): a search of "" is sent as it is.                     *)
(***************************************************************************)
Searches(t) ==
    /\ Started(t)
    /\ call[t].name = "search-resource"
    /\ ~AbsentOrEmpty(call[t].arguments, "resource")
    /\ Supplied(call[t].arguments, "search")

C7_SearchParameters ==
    \A t \in Tasks :
        Searches(t) =>
            LET args == call[t].arguments
                params == wire[t][1].params
            IN  /\ Len(RequestsOf(t)) = 1
                /\ IsRequest(wire[t][1], args["resource"].s, "index")
                /\ "search" \in DOMAIN params
                /\ params["search"] = args["search"]
                /\ "organization_id" \in DOMAIN params
                       <=> Supplied(args, "organization_id")
                /\ "organization_id" \in DOMAIN params
                       => params["organization_id"] = args["organization_id"]
                /\ \A k \in DOMAIN params :
                       params[k] # None_ /\ params[k] # PyStr("")

(***************************************************************************)
(* C8: a documentation tool performs one HTTP GET; a status outside 2xx    *)
(* makes the call fail with RemoteRequestFailed and return no text block;  *)
(* status 200 makes it return one text block holding the body unchanged.   *)
(***************************************************************************)
FetchesDocumentation(t) ==
    /\ Started(t)
    /\ \/ call[t].name = "get-report-templates-documentation"
       \/ /\ call[t].name = "get-resource-api-documentation"
          /\ ~AbsentOrEmpty(call[t].arguments, "resource")

C8_DocumentationFetch ==
    \A t \in Tasks :
        FetchesDocumentation(t) =>
            /\ Len(RequestsOf(t)) = 1
            /\ Len(GetRequests(t)) = 1
            /\ (Len(wire[t]) >= 2 /\ wire[t][2].ev = "answer")
                   => LET response == wire[t][2].body
                      IN  /\ response.status_code \notin 200 .. 299
                                 => /\ Failed(t)
                                    /\ Classes(outcome[t].exc)
                                           = {"RemoteRequestFailed"}
                          /\ response.status_code = 200
                                 => /\ Returned(t)
                                    /\ outcome[t].content
                                           = <<TextContent(response.text)>>

C8_Witness ==
    \E t \in Tasks :
        /\ FetchesDocumentation(t)
        /\ call[t].name = "get-resource-api-documentation"
        /\ Len(wire[t]) = 2
        /\ wire[t][2].ev = "answer"
        /\ wire[t][2].body.status_code = 301
        /\ Failed(t)

(***************************************************************************)
(* C9: every remote call is a suspension point: while one invocation waits *)
(* for a remote answer the event loop is free, so that another invocation, *)
(* ready to run, can start.                                                *)
(* resource_action is a blocking call: the waiting task keeps the loop.    *)
(***************************************************************************)
WaitsForRemote(t) == pc[t] \in {"blocked", "suspended"}

C9_RemoteWaitFreesTheLoop ==
    \A t \in Tasks : \A u \in Tasks \ {t} :
        (WaitsForRemote(t) /\ pc[u] = "ready") => loop = NoTask

(***************************************************************************)
(* C10: no remote request is re-attempted: a call issues at most one       *)
(* request (get-report-template: at most one 'index' and one 'show'), and  *)
(* when a request fails the call fails at once, with no further request    *)
(* and no result.                                                          *)
(***************************************************************************)
\* event e of the wire reports a failed request
IsRemoteFailure(e) ==
    \/ e.ev = "error"
    \/ /\ e.ev = "answer"
       /\ "status_code" \in DOMAIN e.body
       /\ e.body["status_code"] \notin 200 .. 299

C10_NoRetry ==
    \A t \in Tasks :
        /\ Len(IndexRequests(t)) <= 1
        /\ Len(ShowRequests(t)) <= 1
        /\ Len(GetRequests(t)) <= 1
        /\ call[t].name # "get-report-template" => Len(RequestsOf(t)) <= 1
        /\ \A i \in 1 .. Len(wire[t]) :
               IsRemoteFailure(wire[t][i])
                   => /\ i = Len(wire[t])
                      /\ Failed(t)
                      /\ IsRemoteRequestFailed(outcome[t].exc)

C10_Witness ==
    \E t \in Tasks :
        /\ call[t].name = "get-report-template"
        /\ Len(wire[t]) = 4
        /\ wire[t][4].ev = "error"
        /\ Len(ShowRequests(t)) = 1
        /\ Failed(t)

====
